---- MODULE Spec2Model ----
(***************************************************************************)
(* Model of the chat-bot scripts of tg_lesson_1.                           *)
(*                                                                         *)
(* Part 1 (specification Spec): the guided form of dz.py.  The dispatcher  *)
(* of dz.py:28 is built with its defaults and polled by dz.py:83 with its  *)
(* defaults: every polled update becomes its own asyncio task, and no      *)
(* per-chat lock is configured.  A task runs without interruption up to    *)
(* its first network await (message.answer); the storage calls             *)
(* (update_data, set_state, get_data) and sqlite3 do not yield.  A handler *)
(* therefore is one step up to message.answer and one step after it.       *)
(* Replies sent with message.answer are taken to be delivered.             *)
(*                                                                         *)
(* Part 2 (specification SpecReplies): the request/response handlers of    *)
(* main.py and dz3.py.  A handler run is one step: the outcomes of the     *)
(* outbound calls it makes are its inputs, the replies it sent and the     *)
(* exception that left it (if any) are its result, recorded in run.        *)
(***************************************************************************)
EXTENDS Integers, Sequences, FiniteSets, TLC

\* ---------------------------------------------------------------- bounds
MaxUpdates == 6        \* updates polled in one behaviour
MaxTasks == 2          \* handler tasks of one chat suspended at message.answer
MaxCode == 100         \* weather codes run from -MaxCode to MaxCode

\* ---------------------------------------------------------------- values
Chats == {"c1", "c2"}
\* message.text of the non-command messages: a word, an integer literal, an
\* integer literal with leading zeros.
Texts == {"Ann", "7", "007"}
NoText == "<None>"          \* message.text is None (photo, sticker, ...)
Inputs == Texts \cup {NoText}

Absent == "<absent>"        \* key missing from the FSM data dict
NoState == "<no state>"     \* FSM state None

Fields == {"name", "age", "grade"}
NoData == [f \in Fields |-> Absent]

VARIABLES
    state,      \* chat -> FSM state (MemoryStorage record .state)
    data,       \* chat -> FSM data dict (MemoryStorage record .data)
    tasks,      \* chat -> sequence of handler names suspended at message.answer
    db,         \* rows of table users, in rowid order
    polled,     \* number of updates polled so far
    hist,       \* chat -> handler runs started since the chat's last /start
    rows,       \* chat -> rows inserted for the chat since its last /start
    prompts,    \* chat -> prompt -> times sent since the chat's last /start
    nStart,     \* chat -> /start updates handled
    nInsert,    \* chat -> rows inserted for the chat
    last,       \* the handler run that finished last
    run         \* main.py, dz3.py: the handler run that finished last

dzvars == <<state, data, tasks, db, polled, hist, rows, prompts, nStart, nInsert, last>>
vars == <<state, data, tasks, db, polled, hist, rows, prompts, nStart, nInsert, last, run>>

\* ------------------------------------------------------- durable store
\* Column affinity of CREATE TABLE users: name TEXT, age INTEGER, grade INTEGER.
\* A bound str parameter that is a well-formed integer literal is stored in an
\* INTEGER column as that integer; any other text is stored as text.
IsIntegerLiteral(t) == t \in {"7", "007"}
IntegerValue(t) == CASE t = "7" -> 7 [] t = "007" -> 7
TextValue(t) == [text |-> t]
IntValue(n) == [int |-> n]
IntegerAffinity(t) == IF IsIntegerLiteral(t) THEN IntValue(IntegerValue(t)) ELSE TextValue(t)
TextAffinity(t) == TextValue(t)

\* The three NOT NULL constraints: a None parameter raises IntegrityError.
NotNullOk(n, a, g) == n # NoText /\ a # NoText /\ g # NoText

\* INSERT INTO users (name, age, grade) VALUES (?, ?, ?)
InsertRow(n, a, g) == [name |-> TextAffinity(n), age |-> IntegerAffinity(a), grade |-> IntegerAffinity(g)]

\* ------------------------------------------------------------- helpers
Run(c, h, sent, wrote) == [chat |-> c, handler |-> h, sent |-> sent, wrote |-> wrote]
NoRun == Run("-", "-", 0, 0)

CanPoll == polled < MaxUpdates
CanSuspend(c) == Len(tasks[c]) < MaxTasks

RemoveAt(s, i) == [j \in 1..(Len(s) - 1) |-> IF j < i THEN s[j] ELSE s[j + 1]]

NoReply == [handler |-> "-", failure |-> "none", replies |-> <<>>, raised |-> "none"]

Init ==
    /\ state = [c \in Chats |-> NoState]
    /\ data = [c \in Chats |-> NoData]
    /\ tasks = [c \in Chats |-> <<>>]
    /\ db = <<>>
    /\ polled = 0
    /\ hist = [c \in Chats |-> <<>>]
    /\ rows = [c \in Chats |-> <<>>]
    /\ prompts = [c \in Chats |-> [f \in Fields |-> 0]]
    /\ nStart = [c \in Chats |-> 0]
    /\ nInsert = [c \in Chats |-> 0]
    /\ last = NoRun
    /\ run = NoReply

\* --------------------------------------------------------- FSM storage
\* state.update_data(key=value): MemoryStorage merges the key into the dict.
update_data(d, key, value) == [d EXCEPT ![key] = value]

\* grade with the age and grade parameters exchanged.
grade_params_swapped(d) == <<d["name"], d["grade"], d["age"]>>

\* The parameter tuple of cur.execute in grade: user_data['name'],
\* user_data['age'], user_data['grade'].
grade_params(d) == <<d["name"], d["age"], d["grade"]>>

\* user_data[...] raises KeyError when a key is missing.
KeysPresent(d) == \A f \in Fields : d[f] # Absent

\* The state each handler sets after its reply.
set_state_of(h) == CASE h = "start" -> "name" [] h = "name" -> "age" [] h = "age" -> "grade"

\* The prompt each handler sends with message.answer.
prompt_of(h) == CASE h = "start" -> "name" [] h = "name" -> "age" [] h = "age" -> "grade"

Suspend(c, h) == tasks' = [tasks EXCEPT ![c] = Append(@, h)]

\* ------------------------------------------------------------ handlers
\* @dp.message(CommandStart()): registered first, so it takes /start in every
\* state.  Runs up to the await of message.answer.
start(c) ==
    /\ CanPoll /\ CanSuspend(c)
    /\ polled' = polled + 1
    /\ Suspend(c, "start")
    /\ prompts' = [prompts EXCEPT ![c] = [f \in Fields |-> IF f = prompt_of("start") THEN 1 ELSE 0]]
    /\ hist' = [hist EXCEPT ![c] = <<>>]
    /\ rows' = [rows EXCEPT ![c] = <<>>]
    /\ nStart' = [nStart EXCEPT ![c] = @ + 1]
    /\ UNCHANGED <<state, data, db, nInsert, last, run>>

\* A text-collecting handler up to its message.answer: the state filter read
\* by the FSM middleware selects it, update_data stores message.text, the next
\* prompt is sent.
Collect(c, h, t) ==
    /\ CanPoll /\ CanSuspend(c)
    /\ state[c] = h
    /\ polled' = polled + 1
    /\ data' = [data EXCEPT ![c] = update_data(@, h, t)]
    /\ Suspend(c, h)
    /\ prompts' = [prompts EXCEPT ![c][prompt_of(h)] = @ + 1]
    /\ hist' = [hist EXCEPT ![c] = Append(@, <<h, t>>)]
    /\ UNCHANGED <<state, db, rows, nStart, nInsert, last, run>>

\* @dp.message(Form.name)
name(c, t) == Collect(c, "name", t)

\* @dp.message(Form.age)
age(c, t) == Collect(c, "age", t)

\* The rest of start, name and age after message.answer returned: set_state.
set_state(c, i) ==
    /\ i \in 1..Len(tasks[c])
    /\ LET h == tasks[c][i] IN
        /\ state' = [state EXCEPT ![c] = set_state_of(h)]
        /\ last' = Run(c, h, 1, 0)
    /\ tasks' = [tasks EXCEPT ![c] = RemoveAt(@, i)]
    /\ UNCHANGED <<data, db, polled, hist, rows, prompts, nStart, nInsert, run>>

\* @dp.message(Form.grade): update_data, get_data, INSERT, commit; no await
\* yields, no reply is sent and the state is left as it is.
grade(c, t) ==
    /\ CanPoll
    /\ state[c] = "grade"
    /\ polled' = polled + 1
    /\ LET user_data == update_data(data[c], "grade", t)
           p == grade_params(user_data)
           ok == KeysPresent(user_data) /\ NotNullOk(p[1], p[2], p[3])
       IN
        /\ data' = [data EXCEPT ![c] = user_data]
        /\ db' = IF ok THEN Append(db, InsertRow(p[1], p[2], p[3])) ELSE db
        /\ rows' = IF ok THEN [rows EXCEPT ![c] = Append(@, InsertRow(p[1], p[2], p[3]))] ELSE rows
        /\ nInsert' = IF ok THEN [nInsert EXCEPT ![c] = @ + 1] ELSE nInsert
        /\ last' = Run(c, "grade", 0, IF ok THEN 1 ELSE 0)
    /\ hist' = [hist EXCEPT ![c] = Append(@, <<"grade", t>>)]
    /\ UNCHANGED <<state, tasks, prompts, nStart, run>>

\* A non-command message while the chat has no state: no handler matches.
unhandled(c, t) ==
    /\ CanPoll
    /\ state[c] = NoState
    /\ polled' = polled + 1
    /\ UNCHANGED <<state, data, tasks, db, hist, rows, prompts, nStart, nInsert, last, run>>

Next ==
    \/ \E c \in Chats : start(c)
    \/ \E c \in Chats, t \in Inputs : name(c, t)
    \/ \E c \in Chats, t \in Inputs : age(c, t)
    \/ \E c \in Chats, t \in Inputs : grade(c, t)
    \/ \E c \in Chats, i \in 1..MaxTasks : set_state(c, i)
    \/ \E c \in Chats, t \in Inputs : unhandled(c, t)

Spec == Init /\ [][Next]_vars

\* ================================================ main.py, dz3.py handlers
\* ---------------------------------------------------------- exceptions
\* issubclass(e, k) for the exception classes the handlers meet.  Since Python
\* 3.11 asyncio.TimeoutError is the builtin TimeoutError, a subclass of
\* OSError; before, it derives from Exception only.
IsSubclass(e, k, py311) ==
    \/ e = k
    \/ k = "Exception"
    \/ k = "ClientError" /\ e \in {"ClientConnectorError", "ClientResponseError", "ContentTypeError"}
    \/ k = "ValueError" /\ e = "JSONDecodeError"
    \/ k = "OSError" /\ e = "TimeoutError" /\ py311

\* An except clause naming the classes ks catches e.
Catches(e, ks, py311) == \E k \in ks : IsSubclass(e, k, py311)

Return(v) == [exc |-> "none", val |-> v]
Raise(e) == [exc |-> e, val |-> "-"]

\* The failure category of an exception that reaches a handler.
Category(e) ==
    CASE e \in {"ClientConnectorError", "ClientResponseError"} -> "network"
      [] e = "TimeoutError" -> "timeout"
      [] e \in {"ContentTypeError", "JSONDecodeError", "AttributeError", "ValueError"} -> "malformed"
      [] e = "RuntimeError" -> "service"
      [] e \in {"TelegramAPIError", "gTTSError"} -> "network"
      [] e = "OSError" -> "local_io"
      [] OTHER -> "none"

\* ------------------------------------------------------ HTTP responses
\* What one HTTP exchange can come to: the connection fails, the total timeout
\* expires, or a response arrives with a status, a content type and a body.
\* Bodies: "good" (the expected payload), "missing" (a JSON object, or a page,
\* without the expected content), "wrong_type" (JSON, but not an object),
\* "not_json" (not parseable).
Bodies == {"good", "missing", "wrong_type", "not_json"}
Responses ==
    {[net |-> n, status |-> 0, ctype |-> "-", body |-> "-"] : n \in {"connect_error", "timeout"}}
    \cup [net : {"ok"}, status : {200, 500}, ctype : {"json", "other"}, body : Bodies]

\* session.get / session.post: the exception of the exchange itself.
NetError(r) ==
    CASE r.net = "connect_error" -> "ClientConnectorError"
      [] r.net = "timeout" -> "TimeoutError"
      [] OTHER -> "none"

\* ------------------------------------------------------------ weather
\* _fetch_krasnodar_weather: get, raise_for_status, response.json() (which
\* checks the content type), payload.get(...), int(weather_code_raw).
_fetch_krasnodar_weather(r) ==
    CASE NetError(r) # "none" -> Raise(NetError(r))
      [] r.status # 200 -> Raise("ClientResponseError")
      [] r.ctype # "json" -> Raise("ContentTypeError")
      [] r.body = "not_json" -> Raise("JSONDecodeError")
      [] r.body = "wrong_type" -> Raise("AttributeError")
      [] r.body = "missing" -> Return("weather: unrecognised response")
      [] OTHER -> Return("weather: report")

\* The try statement of weather and of news: the except clauses in order.
weather_text(o, py311) ==
    CASE o.exc = "none" -> Return(o.val)
      [] Catches(o.exc, {"ClientError"}, py311) -> Return("weather: network error")
      [] Catches(o.exc, {"TimeoutError"}, py311) -> Return("weather: timeout")
      [] OTHER -> Raise(o.exc)

\* The result of a handler run.
Finish(h, inp, failure, replies, raised) ==
    run' = [handler |-> h, input |-> inp, failure |-> failure, replies |-> replies, raised |-> raised]

\* @dp.message(Command("weather"))
weather(r, py311) ==
    LET o == _fetch_krasnodar_weather(r)
        text == weather_text(o, py311)
    IN  /\ Finish("weather", <<r, py311>>, Category(o.exc),
                  IF text.exc = "none" THEN <<text.val>> ELSE <<>>, text.exc)
        /\ UNCHANGED dzvars

\* --------------------------------------------------------------- news
\* One pass of the loop of _fetch_forex_news_text: get, response.json(
\* content_type=None), the status check, the articles check.
news_request(r) ==
    CASE NetError(r) # "none" -> Raise(NetError(r))
      [] r.body = "not_json" -> Raise("JSONDecodeError")
      [] r.status # 200 -> Raise("RuntimeError")
      [] r.body \in {"missing", "wrong_type"} -> Return("continue")
      [] OTHER -> Return("news: list")

\* _fetch_forex_news_text: the key, then language "ru", then language "en".
_fetch_forex_news_text(key, r1, r2) ==
    IF ~key THEN Raise("RuntimeError")
    ELSE LET o1 == news_request(r1)
             o2 == news_request(r2)
         IN  IF o1 # Return("continue") THEN o1
             ELSE IF o2 # Return("continue") THEN o2
             ELSE Return("news: nothing found")

news_text(o, py311) ==
    CASE o.exc = "none" -> Return(o.val)
      [] Catches(o.exc, {"ClientError"}, py311) -> Return("news: network error")
      [] Catches(o.exc, {"TimeoutError"}, py311) -> Return("news: timeout")
      [] Catches(o.exc, {"RuntimeError"}, py311) -> Return("news: error with details")
      [] OTHER -> Raise(o.exc)

\* @dp.message(Command("news"))
news(key, r1, r2, py311) ==
    LET o == _fetch_forex_news_text(key, r1, r2)
        text == news_text(o, py311)
    IN  /\ Finish("news", <<key, r1, r2, py311>>, Category(o.exc),
                  IF text.exc = "none" THEN <<text.val>> ELSE <<>>, text.exc)
        /\ UNCHANGED dzvars


\* ------------------------------------------------ translate_and_voice
\* The primary provider inside the try of _translate_to_english: get,
\* raise_for_status, response.text(), the search for the result container.
translate_primary(p) ==
    CASE NetError(p) # "none" -> Raise(NetError(p))
      [] p.status # 200 -> Raise("ClientResponseError")
      [] p.body = "good" -> Return("translation")
      [] OTHER -> Return("no result")

\* The secondary provider: post, raise_for_status, response.json(
\* content_type=None), data.get("translatedText"), the emptiness check.
translate_secondary(s) ==
    CASE NetError(s) # "none" -> Raise(NetError(s))
      [] s.status # 200 -> Raise("ClientResponseError")
      [] s.body = "not_json" -> Raise("JSONDecodeError")
      [] s.body = "wrong_type" -> Raise("AttributeError")
      [] s.body = "missing" -> Raise("ValueError")
      [] OTHER -> Return("translation")

\* Control reaches the secondary provider: the primary one returned nothing, or
\* raised what except (aiohttp.ClientError, re.error): pass catches.
falls_back(o, py311) ==
    /\ o # Return("translation")
    /\ o.exc = "none" \/ Catches(o.exc, {"ClientError", "re.error"}, py311)

\* _translate_to_english: except (aiohttp.ClientError, re.error): pass around
\* the primary provider, then the secondary one.
_translate_to_english(p, s, py311) ==
    LET o == translate_primary(p) IN
    IF falls_back(o, py311) THEN translate_secondary(s) ELSE o

\* _is_ffmpeg_available: subprocess.run raises OSError when there is no ffmpeg
\* on the PATH; any exit status counts as available.
_is_ffmpeg_available(ffmpeg) == ffmpeg # "absent"

\* The voice branch without its return: the handler goes on to answer_audio.
voice_branch_no_return(ffmpeg, convert, voice) ==
    IF _is_ffmpeg_available(ffmpeg) /\ convert = "ok" /\ voice = "ok"
    THEN [sent |-> <<"voice: tts.ogg">>, returned |-> FALSE]
    ELSE [sent |-> <<>>, returned |-> FALSE]

\* if _is_ffmpeg_available(): try: convert; answer_voice; return
\* except Exception: pass
voice_branch(ffmpeg, convert, voice) ==
    IF _is_ffmpeg_available(ffmpeg) /\ convert = "ok" /\ voice = "ok"
    THEN [sent |-> <<"voice: tts.ogg">>, returned |-> TRUE]
    ELSE [sent |-> <<>>, returned |-> FALSE]

\* The replies of translate_and_voice after a translation was obtained.
voice_replies(translated, tts, ffmpeg, convert, voice) ==
    IF tts # "ok" THEN <<translated, "tts: failed">>
    ELSE LET v == voice_branch(ffmpeg, convert, voice) IN
         <<translated>> \o v.sent \o (IF v.returned THEN <<>> ELSE <<"audio: tts.mp3">>)

\* @dp.message(F.text & ~F.text.startswith("/"))
translate_and_voice(text, p, s, tts, ffmpeg, convert, voice, py311) ==
    LET o == _translate_to_english(p, s, py311)
        inp == [text |-> text, primary |-> p, secondary |-> s, tts |-> tts,
                ffmpeg |-> ffmpeg, convert |-> convert, voice |-> voice, py311 |-> py311]
    IN  /\ CASE text = "blank" -> Finish("translate_and_voice", inp, "none", <<>>, "none")
             [] o.exc = "none" ->
                    Finish("translate_and_voice", inp, Category(IF tts = "ok" THEN "none" ELSE tts),
                           voice_replies(o.val, tts, ffmpeg, convert, voice), "none")
             [] Catches(o.exc, {"ClientError"}, py311) ->
                    Finish("translate_and_voice", inp, Category(o.exc), <<"translate: network error">>, "none")
             [] Catches(o.exc, {"TimeoutError", "ValueError"}, py311) ->
                    Finish("translate_and_voice", inp, Category(o.exc), <<"translate: failed">>, "none")
             [] OTHER -> Finish("translate_and_voice", inp, Category(o.exc), <<>>, o.exc)
        /\ UNCHANGED dzvars

\* --------------------------------------------------------- save_photo
\* The try of save_photo: bot.get_file, then bot.download.
photo_saved(get_file, download) ==
    CASE get_file # "ok" -> Raise(get_file)
      [] download # "ok" -> Raise(download)
      [] OTHER -> Return("photo: saved")

\* @dp.message(F.photo): the filter admits only messages with a photo.
\* IMG_DIR.mkdir stands before the try.
save_photo(mkdir, get_file, download, py311) ==
    LET o == photo_saved(get_file, download)
        inp == [mkdir |-> mkdir, get_file |-> get_file, download |-> download, py311 |-> py311]
    IN  /\ CASE mkdir # "ok" -> Finish("save_photo", inp, Category(mkdir), <<>>, mkdir)
             [] o.exc = "none" -> Finish("save_photo", inp, "none", <<o.val>>, "none")
             [] Catches(o.exc, {"ClientError"}, py311) ->
                    Finish("save_photo", inp, Category(o.exc), <<"photo: network error">>, "none")
             [] Catches(o.exc, {"OSError", "ValueError"}, py311) ->
                    Finish("save_photo", inp, Category(o.exc), <<"photo: disk error">>, "none")
             [] OTHER -> Finish("save_photo", inp, Category(o.exc), <<>>, o.exc)
        /\ UNCHANGED dzvars

\* dp.start_polling: the run is over, the dispatcher takes the next update.
start_polling ==
    /\ run # NoReply
    /\ run' = NoReply
    /\ UNCHANGED dzvars

\* The dispatcher is between two updates.
Idle == run = NoReply

NextReplies ==
    \/ start_polling
    \/ Idle /\ \E r \in Responses, py \in BOOLEAN : weather(r, py)
    \/ Idle /\ \E key \in BOOLEAN, r1 \in Responses, r2 \in Responses, py \in BOOLEAN :
            news(key, r1, r2, py)
    \/ Idle /\ \E text \in {"plain", "blank"}, p \in Responses, s \in Responses,
          tts \in {"ok", "gTTSError"}, ffmpeg \in {"present", "absent"},
          convert \in {"ok", "raises"}, voice \in {"ok", "raises"}, py \in BOOLEAN :
            translate_and_voice(text, p, s, tts, ffmpeg, convert, voice, py)
    \/ Idle /\ \E mkdir \in {"ok", "OSError"}, get_file \in {"ok", "TelegramAPIError"},
          download \in {"ok", "ClientConnectorError", "TimeoutError", "OSError"}, py \in BOOLEAN :
            save_photo(mkdir, get_file, download, py)

SpecReplies == Init /\ [][NextReplies]_vars

\* The texts the handlers send when something failed.
ErrorTexts ==
    {"weather: network error", "weather: timeout", "weather: unrecognised response",
     "news: network error", "news: timeout", "news: error with details",
     "translate: network error", "translate: failed", "tts: failed",
     "photo: network error", "photo: disk error"}

\* ====================================================== claims on dz.py
\* The chat's runs since its last /start are exactly name(t1), age(t2),
\* grade(t3), all three with a text.
ThreeAnswers(c, t1, t2, t3) ==
    /\ nStart[c] > 0
    /\ hist[c] = << <<"name", t1>>, <<"age", t2>>, <<"grade", t3>> >>

\* What an INTEGER column holds after a text was bound to it.
C1_Stored(t) == IF t \in {"7", "007"} THEN [int |-> 7] ELSE [text |-> t]

C2_NoPartialWrite ==
    /\ \A i \in 1..Len(db) : \A f \in Fields : db[i][f] # [text |-> NoText]
    /\ \A c \in Chats : rows[c] # <<>> => Len(hist[c]) >= 3

\* C3 as stated: once a /start has been handled to its end (and nothing else
\* of the chat has run since), the step is name, the name prompt was sent once
\* and no collected field is left.
C3_BeginResets ==
    \A c \in Chats :
        (nStart[c] > 0 /\ hist[c] = <<>> /\ tasks[c] = <<>>) =>
            /\ state[c] = "name"
            /\ prompts[c]["name"] = 1
            /\ data[c] = NoData

\* C4 as stated: completion is terminal, so a chat never has more rows than
\* /start triggers.
C4_CompleteIsTerminal == \A c \in Chats : nInsert[c] <= nStart[c]

\* C5 as stated: a field of the session's record that is set is never
\* overwritten by a later message.
C5_NoOverwrite ==
    [][\A c \in Chats, f \in Fields : data[c][f] # Absent => data'[c][f] = data[c][f]]_vars

\* C6 as stated: apart from the reset to name, every change of a chat's step
\* goes to the next step of name -> age -> grade, and no prompt is sent twice
\* between two /start triggers.
C6_StrictOrder ==
    [][\A c \in Chats :
        /\ state'[c] # state[c] =>
            \/ state'[c] = "name"
            \/ state[c] = "name" /\ state'[c] = "age"
            \/ state[c] = "age" /\ state'[c] = "grade"
        /\ \A f \in Fields : prompts'[c][f] <= 1]_vars

\* C8 as stated: while a handler run of a chat is suspended at an await, the
\* only step that concerns the chat is the rest of that run.
C8_NoOverlap ==
    [][\A c \in Chats : tasks[c] # <<>> =>
        \/ Len(tasks'[c]) < Len(tasks[c])
        \/ tasks'[c] = tasks[c] /\ state'[c] = state[c] /\ data'[c] = data[c] /\ hist'[c] = hist[c]]_vars

\* C9 as stated: every handler run of the form sent exactly one message, and
\* the run of grade made exactly one insert.
C9_OneMessagePerTransition ==
    last # NoRun =>
        /\ last.sent = 1
        /\ last.handler = "grade" => last.wrote = 1

\* ====================================================== pure functions
\* ------------------------------------------------- _weather_code_to_ru
\* The dict of _weather_code_to_ru, its Russian descriptions transliterated.
mapping ==
    0 :> "yasno" @@
    1 :> "preimushchestvenno yasno" @@
    2 :> "peremennaya oblachnost'" @@
    3 :> "pasmurno" @@
    45 :> "tuman" @@
    48 :> "izmoroz' (tuman)" @@
    51 :> "lyogkaya moros'" @@
    53 :> "umerennaya moros'" @@
    55 :> "sil'naya moros'" @@
    56 :> "lyogkaya pereokhlazhdyonnaya moros'" @@
    57 :> "sil'naya pereokhlazhdyonnaya moros'" @@
    61 :> "lyogkiy dozhd'" @@
    63 :> "umerennyy dozhd'" @@
    65 :> "sil'nyy dozhd'" @@
    66 :> "lyogkiy pereokhlazhdyonnyy dozhd'" @@
    67 :> "sil'nyy pereokhlazhdyonnyy dozhd'" @@
    71 :> "lyogkiy sneg" @@
    73 :> "umerennyy sneg" @@
    75 :> "sil'nyy sneg" @@
    77 :> "snezhnye zyorna" @@
    80 :> "lyogkie livni" @@
    81 :> "umerennye livni" @@
    82 :> "sil'nye livni" @@
    85 :> "lyogkie snegopady" @@
    86 :> "sil'nye snegopady" @@
    95 :> "groza" @@
    96 :> "groza s gradom (lyogkim)" @@
    99 :> "groza s gradom (sil'nym)"

\* str(n) of an int, as the f-string formats it: a minus sign for a negative
\* number, then the decimal digits without leading zeros.  A text is a
\* sequence of pieces; the pieces of a number are its characters.
Digit(d) == <<"0", "1", "2", "3", "4", "5", "6", "7", "8", "9">>[d + 1]
RECURSIVE DecimalDigits(_)
DecimalDigits(n) == IF n < 10 THEN <<Digit(n)>> ELSE DecimalDigits(n \div 10) \o <<Digit(n % 10)>>
str(n) == IF n < 0 THEN <<"-">> \o DecimalDigits(0 - n) ELSE DecimalDigits(n)

\* The default without the code in it.
_weather_code_to_ru_plain_default(weather_code) ==
    IF weather_code \in DOMAIN mapping
    THEN Return(<<mapping[weather_code]>>)
    ELSE Return(<<"neizvestno">>)

\* return mapping.get(weather_code, f"neizvestno (kod {weather_code})")
_weather_code_to_ru(weather_code) ==
    IF weather_code \in DOMAIN mapping
    THEN Return(<<mapping[weather_code]>>)
    ELSE Return(<<"neizvestno (kod ">> \o str(weather_code) \o <<")">>)

\* description = _weather_code_to_ru(weather_code) in _fetch_krasnodar_weather,
\* for the int that int(weather_code_raw) gave.
weather_description(weather_code) ==
    LET o == _weather_code_to_ru(weather_code) IN
    /\ run' = [handler |-> "_weather_code_to_ru", input |-> weather_code, failure |-> "none",
               replies |-> <<>>, raised |-> o.exc, result |-> o.val]
    /\ UNCHANGED dzvars

\* ----------------------------------------------- _translate_to_english
\* translated = await _translate_to_english(source_text): the providers it
\* called, what the primary one came to, and what it returned or raised.
translated(p, s, py311) ==
    LET o == translate_primary(p)
        out == _translate_to_english(p, s, py311)
    IN
    /\ run' = [handler |-> "_translate_to_english",
               input |-> [primary |-> p, secondary |-> s, py311 |-> py311],
               calls |-> IF falls_back(o, py311) THEN <<"primary", "secondary">> ELSE <<"primary">>,
               primary |-> o, secondary |-> translate_secondary(s),
               failure |-> Category(out.exc), replies |-> <<>>,
               raised |-> out.exc, result |-> out.val]
    /\ UNCHANGED dzvars

Codes == (0 - MaxCode)..MaxCode

NextFunctions ==
    \/ start_polling
    \/ Idle /\ \E weather_code \in Codes : weather_description(weather_code)
    \/ Idle /\ \E p \in Responses, s \in Responses, py \in BOOLEAN : translated(p, s, py)

SpecFunctions == Init /\ [][NextFunctions]_vars

\* ================================== claims on the handlers of main.py, dz3.py
ErrorReplies(r) == {i \in 1..Len(r.replies) : r.replies[i] \in ErrorTexts}

\* C7 as stated: a handler run whose collaborator failed with a network error,
\* a timeout or a malformed response raised nothing and sent exactly one
\* fixed-text reply.
C7_FailureGivesOneReply ==
    run.failure \in {"network", "timeout", "malformed"} =>
        /\ run.raised = "none"
        /\ Cardinality(ErrorReplies(run)) = 1

Sent(r, what) == \E i \in 1..Len(r.replies) : r.replies[i] = what

\* The run is one of translate_and_voice in which translation and speech
\* synthesis succeeded.
Synthesized(r) ==
    /\ r.handler = "translate_and_voice"
    /\ r.input.text # "blank"
    /\ r.raised = "none"
    /\ Len(r.replies) >= 1 /\ r.replies[1] = "translation"
    /\ r.input.tts = "ok"

C11_DigitValue(ch) ==
    CASE ch = "0" -> 0 [] ch = "1" -> 1 [] ch = "2" -> 2 [] ch = "3" -> 3 [] ch = "4" -> 4
      [] ch = "5" -> 5 [] ch = "6" -> 6 [] ch = "7" -> 7 [] ch = "8" -> 8 [] ch = "9" -> 9

\* The number a sequence of digit characters writes, read left to right.
RECURSIVE C11_Natural(_)
C11_Natural(ds) ==
    IF Len(ds) = 1 THEN C11_DigitValue(ds[1])
    ELSE 10 * C11_Natural(SubSeq(ds, 1, Len(ds) - 1)) + C11_DigitValue(ds[Len(ds)])

\* The number written in the pieces of a text between its first and its last.
C11_CodeIn(text) ==
    LET inner == SubSeq(text, 2, Len(text) - 1) IN
    IF inner[1] = "-" THEN 0 - C11_Natural(Tail(inner)) ELSE C11_Natural(inner)

\* The canonical spelling: no leading zero, no "-0".
C11_Canonical(text) ==
    LET inner == SubSeq(text, 2, Len(text) - 1)
        ds == IF inner[1] = "-" THEN Tail(inner) ELSE inner
    IN  /\ Len(ds) >= 1
        /\ \A i \in 1..Len(ds) : ds[i] \in {"0", "1", "2", "3", "4", "5", "6", "7", "8", "9"}
        /\ Len(ds) > 1 => ds[1] # "0"
        /\ inner[1] = "-" => ds # <<"0">>

\* C11: _weather_code_to_ru never raises; for a code of the table it returns
\* the table's description, for any other code the fallback text with the
\* code written in it in decimal.
C11_CodeToText ==
    run.handler = "_weather_code_to_ru" =>
        /\ run.raised = "none"
        /\ run.input \in DOMAIN mapping => run.result = <<mapping[run.input]>>
        /\ run.input \notin DOMAIN mapping =>
            /\ Len(run.result) >= 3
            /\ run.result[1] = "neizvestno (kod "
            /\ run.result[Len(run.result)] = ")"
            /\ C11_Canonical(run.result)
            /\ C11_CodeIn(run.result) = run.input

\* C11 witness: a negative code outside the table came back in the fallback.
C11_Witness ==
    /\ run.handler = "_weather_code_to_ru"
    /\ run.input = 0 - 42
    /\ run.result = <<"neizvestno (kod ", "-", "4", "2", ")">>

\* C12 as stated: the secondary provider is called exactly when the primary one
\* gave no translation (no result, or a failed request); the function returns
\* the primary translation if there is one, else the secondary's, else raises.
C12_SecondaryOnPrimaryFailure ==
    run.handler = "_translate_to_english" =>
        LET primaryGave == run.primary = Return("translation")
            secondaryCalled == \E i \in 1..Len(run.calls) : run.calls[i] = "secondary"
        IN  /\ secondaryCalled <=> ~primaryGave
            /\ primaryGave => run.raised = "none" /\ run.result = run.primary.val
            /\ (~primaryGave /\ run.secondary.exc = "none") =>
                    run.raised = "none" /\ run.result = run.secondary.val
            /\ (~primaryGave /\ run.secondary.exc # "none") => run.raised # "none"

====
